---- MODULE Spec2Model ----
(***************************************************************************)
(* Model of rust/tw_bitcoin/src/entry.rs: the BitcoinEntry signing         *)
(* pipeline (preimage_hashes_impl, sign_impl, compile_impl), the three     *)
(* CoinEntry wrappers around them and the error bridge handle_utxo_error.  *)
(*                                                                         *)
(* The collaborators entry.rs calls (modules::transactions builders,       *)
(* modules::signer::Signer, tw_utxo::compiler::Compiler, crate::Error) are *)
(* other crates/modules of the repository; they are modelled after the     *)
(* written specification (sections 3, 4 and 6).                            *)
(***************************************************************************)
EXTENDS Integers, Sequences, FiniteSets, TLC

VARIABLES
    request,          \* Proto::SigningInput handed to every top-level call
    oracle,           \* what the (deterministic) compiler collaborator answers for this request
    pc,               \* position of the caller / of sign_impl
    individual_keys,  \* sign_impl: HashMap index -> private key
    pre_signed,       \* sign_impl: result of preimage_hashes_impl
    signatures,       \* sign_impl: result of Signer::signatures_from_proto
    sign_out,         \* response of CoinEntry::sign
    sign_calls,       \* stages and collaborators invoked by CoinEntry::sign, in order
    sign_failed,      \* error of the first failing stage of CoinEntry::sign (<<>> if none)
    pre_out,          \* response of CoinEntry::preimage_hashes
    pre_calls,        \* collaborators invoked by CoinEntry::preimage_hashes
    ext_sigs,         \* signatures the external signer produced from pre_out
    comp_sigs,        \* signature list handed to CoinEntry::compile
    comp_out,         \* response of CoinEntry::compile
    comp_failed,      \* error of the first failing stage of CoinEntry::compile
    panicked,         \* some wrapper's expect() hit an Err
    bridge_in,        \* pair of UtxoProto::Error codes given to handle_utxo_error
    bridge_out        \* the two results of handle_utxo_error

vars == <<request, oracle, pc, individual_keys, pre_signed, signatures, sign_out,
          sign_calls, sign_failed, pre_out, pre_calls, ext_sigs, comp_sigs,
          comp_out, comp_failed, panicked, bridge_in, bridge_out>>

(***************************************************************************)
(* Bounds of the model.                                                    *)
(***************************************************************************)
MaxInputs == 2
MaxOutputs == 2

InputValues == {1, 2}
OutputValues == {1, 2}

(***************************************************************************)
(* Generic helpers.                                                        *)
(***************************************************************************)
SeqsUpTo(S, n) == UNION {[1..k -> S] : k \in 0..n}

InjectiveSeqs(n) ==
    {s \in UNION {[1..k -> 1..n] : k \in 1..n} :
        \A i, j \in DOMAIN s : i # j => s[i] # s[j]}

Min(S) == CHOOSE x \in S : \A y \in S : x <= y

RECURSIVE SumValues(_)
SumValues(s) == IF s = <<>> THEN 0 ELSE Head(s).value + SumValues(Tail(s))

(***************************************************************************)
(* Result<T> and crate::Error.                                             *)
(***************************************************************************)
Ok(v) == [ok |-> TRUE, val |-> v, err |-> <<>>]
Err(e) == [ok |-> FALSE, val |-> <<>>, err |-> e]

\* Proto::Error (BitcoinV2.proto): origin "utxo" are the Error_utxo_* codes.
ProtoError(origin, name) == [origin |-> origin, name |-> name]
Error_OK == ProtoError("bitcoin", "OK")
Error_invalid_change_output == ProtoError("bitcoin", "invalid_change_output")
Error_unmatched_input_signature_count ==
    ProtoError("bitcoin", "unmatched_input_signature_count")
Error_missing_private_key == ProtoError("bitcoin", "missing_private_key")
Error_invalid_input_claim == ProtoError("bitcoin", "invalid_input_claim")
Error_invalid_output_recipient == ProtoError("bitcoin", "invalid_output_recipient")

\* crate::Error: From<Proto::Error> for Error, and From<Error> for Proto::Error.
ErrorFrom(proto_err) == [proto |-> proto_err]
ErrorInto(err) == err.proto

(***************************************************************************)
(* Error bridge: entry.rs, handle_utxo_error.                              *)
(***************************************************************************)
\* UtxoProto::Error, the compiler collaborator's error enumeration.
UtxoErrors ==
    {"OK", "invalid_leaf_hash", "invalid_sighash_type", "invalid_lock_time",
     "invalid_txid", "sighash_failed", "missing_sighash_method",
     "failed_encoding", "insufficient_inputs", "missing_change_script_pubkey",
     "zero_sequence_not_enabled"}

\* Faulty variant: two arms of the match carry the same BitcoinV2 code.
handle_utxo_error_merged(utxo_err) ==
    IF utxo_err = "OK" THEN Ok(<<>>)
    ELSE IF utxo_err = "invalid_txid"
         THEN Err(ErrorFrom(ProtoError("utxo", "invalid_lock_time")))
         ELSE Err(ErrorFrom(ProtoError("utxo", utxo_err)))

handle_utxo_error(utxo_err) ==
    CASE utxo_err = "OK" -> Ok(<<>>)
      [] utxo_err = "invalid_leaf_hash" ->
            Err(ErrorFrom(ProtoError("utxo", "invalid_leaf_hash")))
      [] utxo_err = "invalid_sighash_type" ->
            Err(ErrorFrom(ProtoError("utxo", "invalid_sighash_type")))
      [] utxo_err = "invalid_lock_time" ->
            Err(ErrorFrom(ProtoError("utxo", "invalid_lock_time")))
      [] utxo_err = "invalid_txid" ->
            Err(ErrorFrom(ProtoError("utxo", "invalid_txid")))
      [] utxo_err = "sighash_failed" ->
            Err(ErrorFrom(ProtoError("utxo", "sighash_failed")))
      [] utxo_err = "missing_sighash_method" ->
            Err(ErrorFrom(ProtoError("utxo", "missing_sighash_method")))
      [] utxo_err = "failed_encoding" ->
            Err(ErrorFrom(ProtoError("utxo", "failed_encoding")))
      [] utxo_err = "insufficient_inputs" ->
            Err(ErrorFrom(ProtoError("utxo", "insufficient_inputs")))
      [] utxo_err = "missing_change_script_pubkey" ->
            Err(ErrorFrom(ProtoError("utxo", "missing_change_script_pubkey")))
      [] utxo_err = "zero_sequence_not_enabled" ->
            Err(ErrorFrom(ProtoError("utxo", "zero_sequence_not_enabled")))

(***************************************************************************)
(* Input/Output translator (crate::modules::transactions).                 *)
(***************************************************************************)
\* InputBuilder::utxo_from_proto: Proto::Input -> UtxoProto::TxIn
InputBuilder_utxo_from_proto(input) ==
    IF input.claiming_script = "malformed"
    THEN Err(ErrorFrom(Error_invalid_input_claim))
    ELSE Ok([txid |-> input.txid, vout |-> input.vout, value |-> input.value,
             sequence |-> input.sequence,
             script_pubkey |-> <<"claim", input.claiming_script>>])

\* OutputBuilder::utxo_from_proto: Proto::Output -> Proto::TransactionOutput
OutputBuilder_utxo_from_proto(output) ==
    IF output.to_recipient = "malformed"
    THEN Err(ErrorFrom(Error_invalid_output_recipient))
    ELSE Ok([value |-> output.value,
             script_pubkey |-> <<"script", output.to_recipient>>,
             taproot_payload |-> <<>>, control_block |-> <<>>])

\* InputClaimBuilder::utxo_claim_from_proto: (Proto::Input, signature) -> UtxoProto::TxInClaim
InputClaimBuilder_utxo_claim_from_proto(input, signature) ==
    IF input.claiming_script = "malformed"
    THEN Err(ErrorFrom(Error_invalid_input_claim))
    ELSE Ok([txid |-> input.txid, vout |-> input.vout, value |-> input.value,
             sequence |-> input.sequence, script_sig |-> <<>>,
             witness_items |-> <<signature>>])

\* `for input in proto.inputs { utxo_inputs.push(utxo_from_proto(&input)?) }`:
\* the first failure is returned.
TranslateInputs(inputs) ==
    LET rs == [i \in DOMAIN inputs |-> InputBuilder_utxo_from_proto(inputs[i])]
        bad == {i \in DOMAIN inputs : ~rs[i].ok}
    IN IF bad # {} THEN Err(rs[Min(bad)].err)
       ELSE Ok([i \in DOMAIN inputs |-> rs[i].val])

\* `for output in proto.outputs { utxo_outputs.push(utxo_from_proto(&output)?) }`
TranslateOutputs(outputs) ==
    LET rs == [i \in DOMAIN outputs |-> OutputBuilder_utxo_from_proto(outputs[i])]
        bad == {i \in DOMAIN outputs : ~rs[i].ok}
    IN IF bad # {} THEN Err(rs[Min(bad)].err)
       ELSE Ok([i \in DOMAIN outputs |-> rs[i].val])

\* UtxoProto::TxOut built from a translated output.
TxOut(output) == [value |-> output.value, script_pubkey |-> output.script_pubkey]

(***************************************************************************)
(* Transaction-compiler collaborator (tw_utxo::compiler::Compiler).        *)
(* It is a deterministic function of its argument; `orc` fixes what it     *)
(* answers where the specification leaves the answer open: the inputs a    *)
(* SelectSubset policy keeps (a subset and/or reordering of the request's  *)
(* inputs) and whether the call reports one of its error codes.            *)
(***************************************************************************)
Identity(n) == [i \in 1..n |-> i]

Selection(utxo_signing, orc) ==
    IF utxo_signing.input_selector = "UseAll" \/ utxo_signing.inputs = <<>>
    THEN Identity(Len(utxo_signing.inputs))
    ELSE orc.sel

\* The sighash of one finalized input: it names the outpoint it spends.
Sighash(txin) == [txid |-> txin.txid, vout |-> txin.vout]

Compiler_preimage_hashes(utxo_signing, orc) ==
    LET sel == Selection(utxo_signing, orc)
        selected == [i \in DOMAIN sel |-> utxo_signing.inputs[sel[i]]]
        weight == Len(selected) + Len(utxo_signing.outputs)
        error == IF orc.pre # "OK" THEN orc.pre
                 ELSE IF SumValues(selected) < SumValues(utxo_signing.outputs)
                      THEN "insufficient_inputs"
                      ELSE "OK"
    IN IF error # "OK"
       THEN [error |-> error, sighashes |-> <<>>, inputs |-> <<>>,
             weight_estimate |-> 0, fee_estimate |-> 0]
       ELSE [error |-> "OK",
             sighashes |-> [i \in DOMAIN selected |-> Sighash(selected[i])],
             inputs |-> selected,
             weight_estimate |-> weight,
             fee_estimate |-> weight * utxo_signing.weight_base]

Compiler_compile(pre_ser, orc) ==
    LET error == IF orc.cmp # "OK" THEN orc.cmp
                 ELSE IF SumValues(pre_ser.inputs) < SumValues(pre_ser.outputs)
                      THEN "insufficient_inputs"
                      ELSE "OK"
        tx == [version |-> pre_ser.version, lock_time |-> pre_ser.lock_time,
               inputs |-> pre_ser.inputs, outputs |-> pre_ser.outputs]
    IN IF error # "OK"
       THEN [error |-> error, encoded |-> <<>>, txid |-> <<>>, weight |-> 0, fee |-> 0]
       ELSE [error |-> "OK",
             encoded |-> <<"tx", tx>>,
             txid |-> <<"hash",
                        [tx EXCEPT !.inputs =
                            [i \in DOMAIN pre_ser.inputs |->
                                Sighash(pre_ser.inputs[i])]]>>,
             weight |-> Len(pre_ser.inputs) + Len(pre_ser.outputs),
             fee |-> SumValues(pre_ser.inputs) - SumValues(pre_ser.outputs)]

(***************************************************************************)
(* Signing stage (crate::modules::signer::Signer).                         *)
(***************************************************************************)
Signer_signatures_from_proto(pre, private_key, keys, fixed_rng) ==
    LET key(i) == IF i \in DOMAIN keys THEN keys[i] ELSE private_key
        missing == {i \in DOMAIN pre.sighashes : key(i) = <<>>}
    IN IF missing # {} THEN Err(ErrorFrom(Error_missing_private_key))
       ELSE Ok([i \in DOMAIN pre.sighashes |->
                   [signer |-> key(i), sighash |-> pre.sighashes[i]]])

\* SigningRequest's mapping from input index to per-input private key override.
PerInputKeys(req) ==
    [i \in {j \in DOMAIN req.inputs : req.inputs[j].private_key # <<>>} |->
        req.inputs[i].private_key]

(***************************************************************************)
(* entry.rs: BitcoinEntry::preimage_hashes_impl.                           *)
(* Every *_impl operator yields [res |-> Result, calls |-> the collaborator*)
(* calls it made, in order].                                               *)
(***************************************************************************)
\* Faulty variant: a missing change spec is taken as "no change script".
change_script_pubkey_lenient(proto) ==
    IF proto.disable_change_output \/ proto.change_output = <<>>
    THEN Ok(<<>>)
    ELSE LET output == OutputBuilder_utxo_from_proto(proto.change_output[1])
         IN IF output.ok THEN Ok(output.val.script_pubkey) ELSE Err(output.err)

change_script_pubkey(proto) ==
    IF proto.disable_change_output
    THEN Ok(<<>>)
    ELSE IF proto.change_output = <<>>
         THEN Err(ErrorFrom(Error_invalid_change_output))
         ELSE LET output == OutputBuilder_utxo_from_proto(proto.change_output[1])
              IN IF output.ok THEN Ok(output.val.script_pubkey) ELSE Err(output.err)

UtxoSigningInput(proto, utxo_inputs, utxo_outputs, change) ==
    [version |-> proto.version,
     lock_time |-> proto.lock_time,
     inputs |-> utxo_inputs,
     outputs |-> [i \in DOMAIN utxo_outputs |-> TxOut(utxo_outputs[i])],
     input_selector |-> proto.input_selector,
     weight_base |-> proto.fee_per_vb,
     change_script_pubkey |-> change,
     disable_change_output |-> proto.disable_change_output]

\* Faulty variant: the change script is appended to the finalized outputs.
PreSigningOutput_with_change(utxo_presigning, utxo_outputs, change) ==
    [error |-> Error_OK,
     sighashes |-> utxo_presigning.sighashes,
     utxo_inputs |-> utxo_presigning.inputs,
     utxo_outputs |->
        IF change = <<>> THEN utxo_outputs
        ELSE Append(utxo_outputs,
                    [value |-> 0, script_pubkey |-> change,
                     taproot_payload |-> <<>>, control_block |-> <<>>]),
     weight_estimate |-> utxo_presigning.weight_estimate,
     fee_estimate |-> utxo_presigning.fee_estimate]

PreSigningOutput(utxo_presigning, utxo_outputs, change) ==
    [error |-> Error_OK,
     sighashes |-> utxo_presigning.sighashes,
     utxo_inputs |-> utxo_presigning.inputs,
     utxo_outputs |-> utxo_outputs,
     weight_estimate |-> utxo_presigning.weight_estimate,
     fee_estimate |-> utxo_presigning.fee_estimate]

\* Proto::PreSigningOutput { error, ..Default::default() }
PreSigningOutputDefault(error) ==
    [error |-> error, sighashes |-> <<>>, utxo_inputs |-> <<>>,
     utxo_outputs |-> <<>>, weight_estimate |-> 0, fee_estimate |-> 0]

preimage_hashes_impl(proto, orc) ==
    LET utxo_inputs == TranslateInputs(proto.inputs)
        utxo_outputs == TranslateOutputs(proto.outputs)
        change == change_script_pubkey(proto)
        utxo_signing ==
            UtxoSigningInput(proto, utxo_inputs.val, utxo_outputs.val, change.val)
        utxo_presigning == Compiler_preimage_hashes(utxo_signing, orc)
        bridged == handle_utxo_error(utxo_presigning.error)
    IN IF ~utxo_inputs.ok THEN [res |-> Err(utxo_inputs.err), calls |-> <<>>]
       ELSE IF ~utxo_outputs.ok THEN [res |-> Err(utxo_outputs.err), calls |-> <<>>]
       ELSE IF ~change.ok THEN [res |-> Err(change.err), calls |-> <<>>]
       ELSE IF ~bridged.ok
            THEN [res |-> Err(bridged.err),
                  calls |-> <<"Compiler::preimage_hashes">>]
            ELSE [res |-> Ok(PreSigningOutput(utxo_presigning, utxo_outputs.val,
                                              change.val)),
                  calls |-> <<"Compiler::preimage_hashes">>]

(***************************************************************************)
(* entry.rs: BitcoinEntry::compile_impl.                                   *)
(***************************************************************************)
\* proto.inputs.iter().zip(signatures): one claim per (input, signature) pair.
InputClaims(proto, sigs) ==
    LET n == IF Len(proto.inputs) < Len(sigs) THEN Len(proto.inputs) ELSE Len(sigs)
        rs == [i \in 1..n |->
                 InputClaimBuilder_utxo_claim_from_proto(proto.inputs[i], sigs[i])]
        bad == {i \in 1..n : ~rs[i].ok}
    IN IF bad # {} THEN Err(rs[Min(bad)].err)
       ELSE Ok([i \in 1..n |-> rs[i].val])

\* Faulty variant: the last output is left out of what the compiler serializes.
PreSerialization_short(proto, utxo_input_claims, utxo_outputs) ==
    [version |-> proto.version,
     lock_time |-> proto.lock_time,
     inputs |-> utxo_input_claims,
     outputs |-> [i \in 1..(Len(utxo_outputs) - 1) |-> TxOut(utxo_outputs[i])],
     weight_base |-> proto.fee_per_vb]

PreSerialization(proto, utxo_input_claims, utxo_outputs) ==
    [version |-> proto.version,
     lock_time |-> proto.lock_time,
     inputs |-> utxo_input_claims,
     outputs |-> [i \in DOMAIN utxo_outputs |-> TxOut(utxo_outputs[i])],
     weight_base |-> proto.fee_per_vb]

\* Proto::TransactionInput of one claim.
TransactionInput(input) ==
    [txid |-> input.txid, vout |-> input.vout, sequence |-> input.sequence,
     script_sig |-> input.script_sig, witness_items |-> input.witness_items]

\* Proto::TransactionOutput of one translated output.
TransactionOutput(output) ==
    [script_pubkey |-> output.script_pubkey, value |-> output.value,
     taproot_payload |-> output.taproot_payload,
     control_block |-> output.control_block]

\* Faulty variant: the view lists the inputs back to front.
Transaction_reversed(proto, utxo_input_claims, utxo_outputs) ==
    [version |-> proto.version,
     lock_time |-> proto.lock_time,
     inputs |-> [i \in DOMAIN utxo_input_claims |->
                    TransactionInput(
                        utxo_input_claims[Len(utxo_input_claims) + 1 - i])],
     outputs |-> [i \in DOMAIN utxo_outputs |-> TransactionOutput(utxo_outputs[i])]]

Transaction(proto, utxo_input_claims, utxo_outputs) ==
    [version |-> proto.version,
     lock_time |-> proto.lock_time,
     inputs |-> [i \in DOMAIN utxo_input_claims |->
                    TransactionInput(utxo_input_claims[i])],
     outputs |-> [i \in DOMAIN utxo_outputs |-> TransactionOutput(utxo_outputs[i])]]

SigningOutput(transaction, utxo_serialized) ==
    [error |-> Error_OK,
     transaction |-> <<transaction>>,
     encoded |-> utxo_serialized.encoded,
     txid |-> utxo_serialized.txid,
     weight |-> utxo_serialized.weight,
     fee |-> utxo_serialized.fee]

\* Proto::SigningOutput { error, ..Default::default() }
SigningOutputDefault(error) ==
    [error |-> error, transaction |-> <<>>, encoded |-> <<>>, txid |-> <<>>,
     weight |-> 0, fee |-> 0]

compile_impl(proto, sigs, orc) ==
    LET utxo_input_claims == InputClaims(proto, sigs)
        utxo_outputs == TranslateOutputs(proto.outputs)
        utxo_preserialization ==
            PreSerialization(proto, utxo_input_claims.val, utxo_outputs.val)
        utxo_serialized == Compiler_compile(utxo_preserialization, orc)
        bridged == handle_utxo_error(utxo_serialized.error)
        transaction == Transaction(proto, utxo_input_claims.val, utxo_outputs.val)
    IN IF Len(proto.inputs) # Len(sigs)
       THEN [res |-> Err(ErrorFrom(Error_unmatched_input_signature_count)),
             calls |-> <<>>]
       ELSE IF ~utxo_input_claims.ok
            THEN [res |-> Err(utxo_input_claims.err), calls |-> <<>>]
       ELSE IF ~utxo_outputs.ok
            THEN [res |-> Err(utxo_outputs.err), calls |-> <<>>]
       ELSE IF ~bridged.ok
            THEN [res |-> Err(bridged.err), calls |-> <<"Compiler::compile">>]
            ELSE [res |-> Ok(SigningOutput(transaction, utxo_serialized)),
                  calls |-> <<"Compiler::compile">>]

(***************************************************************************)
(* entry.rs: the CoinEntry wrappers sign / preimage_hashes / compile:      *)
(* impl(..).or_else(|err| Ok(Output { error: err.into(), ..default }))     *)
(*          .expect("did not convert error value")                         *)
(***************************************************************************)
\* Faulty variant: the closure builds a default output and forgets the error.
sign_or_else_forgetful(r) ==
    IF r.ok THEN r ELSE Ok(SigningOutputDefault(Error_OK))

sign_or_else(r) ==
    IF r.ok THEN r ELSE Ok(SigningOutputDefault(ErrorInto(r.err)))

preimage_hashes_or_else(r) ==
    IF r.ok THEN r ELSE Ok(PreSigningOutputDefault(ErrorInto(r.err)))

compile_or_else(r) ==
    IF r.ok THEN r ELSE Ok(SigningOutputDefault(ErrorInto(r.err)))

\* Result::expect: the value of an Ok; an Err makes the call panic.
Expect(r, fallback) == IF r.ok THEN r.val ELSE fallback
ExpectPanics(r) == ~r.ok

\* The error a Result carries, as the response would show it (<<>> if none).
FailureOf(r) == IF r.ok THEN <<>> ELSE <<ErrorInto(r.err)>>

(***************************************************************************)
(* entry.rs: BitcoinEntry::sign_impl, stage by stage.                      *)
(***************************************************************************)
\* Faulty variant: the per-input private keys are not collected.
CollectIndividualKeys_none(proto) == <<>>

CollectIndividualKeys(proto) ==
    [index \in {i \in DOMAIN proto.inputs : proto.inputs[i].private_key # <<>>} |->
        proto.inputs[index].private_key]

\* Faulty variant: the error of the Preimage Stage is not looked at.
PreimageChecked_ignoring(r) ==
    Ok(IF r.ok THEN r.val ELSE PreSigningOutputDefault(ErrorInto(r.err)))

\* `let pre_signed = self.preimage_hashes_impl(..)?;` and the check of its error field.
PreimageChecked(r) ==
    IF ~r.ok THEN Err(r.err)
    ELSE IF r.val.error # Error_OK THEN Err(ErrorFrom(r.val.error))
    ELSE Ok(r.val)

(***************************************************************************)
(* The requests and the collaborator's answers the model ranges over.      *)
(***************************************************************************)
InputSpecs(i) ==
    {[txid |-> 10 + i, vout |-> i - 1, value |-> v, sequence |-> 2147483647,
      claiming_script |-> "p2wpkh", private_key |-> <<>>] : v \in InputValues}
    \cup {[txid |-> 10 + i, vout |-> i - 1, value |-> 1, sequence |-> 2147483647,
           claiming_script |-> "p2wpkh", private_key |-> <<9>>],
          [txid |-> 10 + i, vout |-> i - 1, value |-> 1, sequence |-> 2147483647,
           claiming_script |-> "malformed", private_key |-> <<>>]}

OutputSpecs ==
    {[value |-> v, to_recipient |-> "p2wpkh"] : v \in OutputValues}
    \cup {[value |-> 1, to_recipient |-> "malformed"]}

InputLists ==
    UNION {{s \in [1..n -> UNION {InputSpecs(i) : i \in 1..n}] :
              \A i \in 1..n : s[i] \in InputSpecs(i)} : n \in 0..MaxInputs}

ChangePolicies ==
    {[disable_change_output |-> TRUE, change_output |-> <<>>],
     [disable_change_output |-> FALSE, change_output |-> <<>>],
     [disable_change_output |-> FALSE,
      change_output |-> <<[value |-> 0, to_recipient |-> "p2wpkh"]>>],
     [disable_change_output |-> FALSE,
      change_output |-> <<[value |-> 0, to_recipient |-> "malformed"]>>]}

Requests ==
    {[version |-> 2, lock_time |-> 500000, inputs |-> ins, outputs |-> outs,
      change_output |-> c.change_output,
      disable_change_output |-> c.disable_change_output,
      input_selector |-> sel, fee_per_vb |-> 1, private_key |-> key,
      dangerous_use_fixed_schnorr_rng |-> TRUE] :
        ins \in InputLists, outs \in SeqsUpTo(OutputSpecs, MaxOutputs),
        c \in ChangePolicies, sel \in {"UseAll", "SelectSubset"},
        key \in {<<>>, <<7>>}}

PreimageFaults == {"OK", "sighash_failed"}
CompileFaults == {"OK", "failed_encoding"}

NoOracle == [sel |-> <<>>, pre |-> "unasked", cmp |-> "unasked"]

\* The answers Compiler::preimage_hashes may give, once asked always the same:
\* an error code, or OK with the inputs it selected.
PreimageOracles(req, orc) ==
    IF preimage_hashes_impl(req, [orc EXCEPT !.pre = "sighash_failed"]).calls = <<>>
    THEN {orc}
    ELSE IF orc.pre # "unasked" THEN {orc}
    ELSE {[orc EXCEPT !.pre = e] : e \in PreimageFaults \ {"OK"}}
         \cup {[orc EXCEPT !.sel = s, !.pre = "OK"] :
                 s \in IF req.input_selector = "UseAll" \/ req.inputs = <<>>
                       THEN {<<>>}
                       ELSE InjectiveSeqs(Len(req.inputs))}

\* The answers Compiler::compile may give, once asked always the same.
CompileOracles(req, sigs, orc) ==
    IF compile_impl(req, sigs, [orc EXCEPT !.cmp = "failed_encoding"]).calls = <<>>
    THEN {orc}
    ELSE {[orc EXCEPT !.cmp = e] :
            e \in IF orc.cmp # "unasked" THEN {orc.cmp} ELSE CompileFaults}

\* Signature lists a caller may hand to compile: one too few, as many as the
\* request has inputs, one too many; signing the request's inputs in order, or forged.
ForgedSignature == [signer |-> <<0>>, sighash |-> [txid |-> 0, vout |-> 0]]

SignatureLists(req) ==
    LET n == Len(req.inputs)
    IN {[i \in 1..n |-> ForgedSignature]}
       \cup IF n = 0 THEN {<<ForgedSignature>>}
            ELSE {[i \in 1..k |->
                     [signer |-> <<7>>,
                      sighash |-> Sighash(req.inputs[((i - 1) % n) + 1])]] :
                    k \in {n - 1, n, n + 1}}

(***************************************************************************)
(* Initial state and actions.                                              *)
(***************************************************************************)
Init ==
    /\ request \in Requests
    /\ oracle = NoOracle
    /\ pc = "start"
    /\ individual_keys = <<>>
    /\ pre_signed = PreSigningOutputDefault(Error_OK)
    /\ signatures = <<>>
    /\ sign_out = <<>>
    /\ sign_calls = <<>>
    /\ sign_failed = <<>>
    /\ pre_out = <<>>
    /\ pre_calls = <<>>
    /\ ext_sigs = <<>>
    /\ comp_sigs = <<>>
    /\ comp_out = <<>>
    /\ comp_failed = <<>>
    /\ panicked = FALSE
    /\ bridge_in = <<>>
    /\ bridge_out = <<>>

\* sign_impl returns r: CoinEntry::sign wraps it into the response.
SignReturns(r) ==
    /\ sign_out' = <<Expect(sign_or_else(r), SigningOutputDefault(Error_OK))>>
    /\ panicked' = (panicked \/ ExpectPanics(sign_or_else(r)))
    /\ sign_failed' = FailureOf(r)
    /\ pc' = "sign_done"

\* sign_impl: collect the individual private keys per input.
SignCollect ==
    /\ pc = "start"
    /\ individual_keys' = CollectIndividualKeys(request)
    /\ sign_calls' = <<"individual_keys">>
    /\ pc' = "sign_preimage"
    /\ UNCHANGED <<request, oracle, pre_signed, signatures, sign_out, sign_failed,
                   pre_out, pre_calls, ext_sigs, comp_sigs, comp_out, comp_failed,
                   panicked, bridge_in, bridge_out>>

\* sign_impl: generate the sighashes and check for error.
SignPreimage ==
    /\ pc = "sign_preimage"
    /\ \E orc \in PreimageOracles(request, oracle) :
         LET got == preimage_hashes_impl(request, orc)
             checked == PreimageChecked(got.res)
         IN /\ oracle' = orc
            /\ sign_calls' = sign_calls \o <<"preimage_hashes_impl">> \o got.calls
            /\ IF checked.ok
               THEN /\ pre_signed' = checked.val
                    /\ pc' = "sign_sign"
                    /\ UNCHANGED <<sign_out, sign_failed, panicked>>
               ELSE /\ SignReturns(checked)
                    /\ UNCHANGED pre_signed
    /\ UNCHANGED <<request, individual_keys, signatures, pre_out, pre_calls,
                   ext_sigs, comp_sigs, comp_out, comp_failed, bridge_in, bridge_out>>

\* sign_impl: sign the sighashes.
SignSign ==
    /\ pc = "sign_sign"
    /\ LET signed == Signer_signatures_from_proto(
                         pre_signed, request.private_key, individual_keys,
                         request.dangerous_use_fixed_schnorr_rng)
       IN /\ sign_calls' = Append(sign_calls, "signatures_from_proto")
          /\ IF signed.ok
             THEN /\ signatures' = signed.val
                  /\ pc' = "sign_compile"
                  /\ UNCHANGED <<sign_out, sign_failed, panicked>>
             ELSE /\ SignReturns(signed)
                  /\ UNCHANGED signatures
    /\ UNCHANGED <<request, oracle, individual_keys, pre_signed, pre_out, pre_calls,
                   ext_sigs, comp_sigs, comp_out, comp_failed, bridge_in, bridge_out>>

\* sign_impl: construct the final transaction.
SignCompile ==
    /\ pc = "sign_compile"
    /\ \E orc \in CompileOracles(request, signatures, oracle) :
         LET got == compile_impl(request, signatures, orc)
         IN /\ oracle' = orc
            /\ sign_calls' = sign_calls \o <<"compile_impl">> \o got.calls
            /\ SignReturns(got.res)
    /\ UNCHANGED <<request, individual_keys, pre_signed, signatures, pre_out,
                   pre_calls, ext_sigs, comp_sigs, comp_out, comp_failed,
                   bridge_in, bridge_out>>

\* CoinEntry::preimage_hashes, the first call of the split flow.
PreimageHashes ==
    /\ pc = "sign_done"
    /\ \E orc \in PreimageOracles(request, oracle) :
         LET got == preimage_hashes_impl(request, orc)
             wrapped == preimage_hashes_or_else(got.res)
         IN /\ oracle' = orc
            /\ pre_calls' = got.calls
            /\ pre_out' = <<Expect(wrapped, PreSigningOutputDefault(Error_OK))>>
            /\ panicked' = (panicked \/ ExpectPanics(wrapped))
    /\ pc' = "split_ready"
    /\ UNCHANGED <<request, individual_keys, pre_signed, signatures, sign_out,
                   sign_calls, sign_failed, ext_sigs, comp_sigs, comp_out,
                   comp_failed, bridge_in, bridge_out>>

\* The external signer of the split flow signs the sighashes of pre_out.
ExternalSign ==
    /\ pc = "split_ready"
    /\ pre_out[1].error = Error_OK
    /\ LET signed == Signer_signatures_from_proto(
                         pre_out[1], request.private_key, PerInputKeys(request),
                         request.dangerous_use_fixed_schnorr_rng)
       IN IF signed.ok
          THEN ext_sigs' = signed.val /\ pc' = "split_compile"
          ELSE UNCHANGED ext_sigs /\ pc' = "split_unsigned"
    /\ UNCHANGED <<request, oracle, individual_keys, pre_signed, signatures,
                   sign_out, sign_calls, sign_failed, pre_out, pre_calls,
                   comp_sigs, comp_out, comp_failed, panicked, bridge_in, bridge_out>>

\* CoinEntry::compile, with the external signer's signatures or any other list.
Compile ==
    /\ pc \in {"split_ready", "split_compile"}
    /\ \E sigs \in IF pc = "split_compile" THEN {ext_sigs}
                   ELSE SignatureLists(request) :
       \E orc \in CompileOracles(request, sigs, oracle) :
         LET got == compile_impl(request, sigs, orc)
             wrapped == compile_or_else(got.res)
         IN /\ oracle' = orc
            /\ comp_sigs' = sigs
            /\ comp_out' = <<Expect(wrapped, SigningOutputDefault(Error_OK))>>
            /\ comp_failed' = FailureOf(got.res)
            /\ panicked' = (panicked \/ ExpectPanics(wrapped))
    /\ pc' = IF pc = "split_compile" THEN "split_done" ELSE "compiled"
    /\ UNCHANGED <<request, individual_keys, pre_signed, signatures, sign_out,
                   sign_calls, sign_failed, pre_out, pre_calls, ext_sigs,
                   bridge_in, bridge_out>>

Next ==
    \/ SignCollect
    \/ SignPreimage
    \/ SignSign
    \/ SignCompile
    \/ PreimageHashes
    \/ ExternalSign
    \/ Compile

Spec == Init /\ [][Next]_vars

(***************************************************************************)
(* The error bridge on its own: handle_utxo_error applied to every pair of *)
(* codes of the collaborator's enumeration.                                *)
(***************************************************************************)
IdleRequest ==
    [version |-> 2, lock_time |-> 500000, inputs |-> <<>>, outputs |-> <<>>,
     change_output |-> <<>>, disable_change_output |-> TRUE,
     input_selector |-> "UseAll", fee_per_vb |-> 1, private_key |-> <<>>,
     dangerous_use_fixed_schnorr_rng |-> TRUE]

InitBridge ==
    /\ request = IdleRequest
    /\ oracle = NoOracle
    /\ pc = "bridge"
    /\ individual_keys = <<>>
    /\ pre_signed = PreSigningOutputDefault(Error_OK)
    /\ signatures = <<>>
    /\ sign_out = <<>>
    /\ sign_calls = <<>>
    /\ sign_failed = <<>>
    /\ pre_out = <<>>
    /\ pre_calls = <<>>
    /\ ext_sigs = <<>>
    /\ comp_sigs = <<>>
    /\ comp_out = <<>>
    /\ comp_failed = <<>>
    /\ panicked = FALSE
    /\ bridge_in = <<>>
    /\ bridge_out = <<>>

BridgeErrors ==
    /\ pc = "bridge"
    /\ \E a, b \in UtxoErrors :
         /\ bridge_in' = <<a, b>>
         /\ bridge_out' = <<handle_utxo_error(a), handle_utxo_error(b)>>
    /\ UNCHANGED <<request, oracle, pc, individual_keys, pre_signed, signatures,
                   sign_out, sign_calls, sign_failed, pre_out, pre_calls, ext_sigs,
                   comp_sigs, comp_out, comp_failed, panicked>>

NextBridge == BridgeErrors

SpecBridge == InitBridge /\ [][NextBridge]_vars

(***************************************************************************)
(* Properties.                                                             *)
(***************************************************************************)
Range(s) == {s[i] : i \in DOMAIN s}

Succeeded(out) == out # <<>> /\ out[1].error = Error_OK

MissingChange == ~request.disable_change_output /\ request.change_output = <<>>

\* C1: compile with a signature list whose length differs from the finalized
\* input count of compute_preimages for the same request always fails with
\* UnmatchedInputSignatureCount, whatever the signatures hold.
C1_MismatchWithFinalizedCountRejected ==
    (/\ comp_out # <<>>
     /\ Succeeded(pre_out)
     /\ Len(comp_sigs) # Len(pre_out[1].utxo_inputs))
    => comp_out[1].error = Error_unmatched_input_signature_count

\* The error of the first input or output whose translation fails (<<>> if none).
FirstTranslationFailure(req) ==
    LET ins == TranslateInputs(req.inputs)
        outs == TranslateOutputs(req.outputs)
    IN IF ~ins.ok THEN <<ErrorInto(ins.err)>>
       ELSE IF ~outs.ok THEN <<ErrorInto(outs.err)>>
       ELSE <<>>

\* C2 as stated: with change enabled and no change spec, compute_preimages and
\* sign_all always fail with InvalidChangeOutput, whatever the inputs and
\* outputs are, and the compiler is never invoked.
C2_AlwaysInvalidChangeOutput ==
    /\ (pre_out # <<>> /\ MissingChange)
       => /\ pre_out[1].error = Error_invalid_change_output
          /\ pre_calls = <<>>
    /\ (sign_out # <<>> /\ MissingChange)
       => /\ sign_out[1].error = Error_invalid_change_output
          /\ "Compiler::preimage_hashes" \notin Range(sign_calls)
          /\ "Compiler::compile" \notin Range(sign_calls)

\* C2 amended: with change enabled and no change spec, compute_preimages and
\* sign_all always fail and never invoke the compiler; the error is that of the
\* first input or output whose translation fails, and InvalidChangeOutput when
\* every input and output translates.
C2_MissingChangeFailsBeforeCompiler ==
    LET expected == IF FirstTranslationFailure(request) # <<>>
                    THEN FirstTranslationFailure(request)[1]
                    ELSE Error_invalid_change_output
    IN /\ (pre_out # <<>> /\ MissingChange)
          => /\ pre_out[1] = PreSigningOutputDefault(expected)
             /\ pre_calls = <<>>
       /\ (sign_out # <<>> /\ MissingChange)
          => /\ sign_out[1] = SigningOutputDefault(expected)
             /\ "Compiler::preimage_hashes" \notin Range(sign_calls)
             /\ "Compiler::compile" \notin Range(sign_calls)

C2_Witness ==
    /\ MissingChange
    /\ pre_out # <<>> /\ pre_out[1].error = Error_invalid_change_output
    /\ sign_out # <<>> /\ sign_out[1].error = Error_invalid_change_output
    /\ request.inputs # <<>> /\ request.outputs # <<>>

\* C3: when sign_all and the split flow compile(request,
\* sign(compute_preimages(request))) both succeed, they return the same output.
C3_SplitFlowEqualsSignAll ==
    (pc = "split_done" /\ Succeeded(sign_out) /\ Succeeded(comp_out))
    => comp_out[1] = sign_out[1]

C3_Witness ==
    /\ pc = "split_done" /\ Succeeded(sign_out) /\ Succeeded(comp_out)
    /\ request.private_key # <<>>
    /\ \E i \in DOMAIN request.inputs : request.inputs[i].private_key # <<>>
    /\ \E i \in DOMAIN request.inputs : request.inputs[i].private_key = <<>>

\* C4: sign, preimage_hashes and compile never panic; each returns a response,
\* and when a stage fails the response carries the (non-OK) error of the first
\* failing stage with every other field at its default.
C4_ErrorsBecomeResponses ==
    /\ ~panicked
    /\ pc \in {"sign_done", "split_ready", "split_compile", "split_unsigned",
               "split_done", "compiled"} => sign_out # <<>>
    /\ pc \in {"split_ready", "split_compile", "split_unsigned", "split_done",
               "compiled"} => pre_out # <<>>
    /\ pc \in {"split_done", "compiled"} => comp_out # <<>>
    /\ sign_out # <<>> =>
          IF sign_failed # <<>>
          THEN /\ sign_failed[1] # Error_OK
               /\ sign_out[1] = SigningOutputDefault(sign_failed[1])
          ELSE sign_out[1].error = Error_OK
    /\ pre_out # <<>> =>
          LET failed == FailureOf(preimage_hashes_impl(request, oracle).res)
          IN IF failed # <<>>
             THEN /\ failed[1] # Error_OK
                  /\ pre_out[1] = PreSigningOutputDefault(failed[1])
             ELSE pre_out[1].error = Error_OK
    /\ comp_out # <<>> =>
          IF comp_failed # <<>>
          THEN /\ comp_failed[1] # Error_OK
               /\ comp_out[1] = SigningOutputDefault(comp_failed[1])
          ELSE comp_out[1].error = Error_OK

C4_Witness ==
    /\ sign_out # <<>> /\ sign_failed = <<Error_missing_private_key>>
    /\ pre_out # <<>> /\ pre_out[1].error = Error_OK
    /\ comp_out # <<>> /\ comp_failed # <<>>
    /\ comp_out[1].error = ProtoError("utxo", "failed_encoding")

\* C5: in every transaction sign_all produces, the inputs are the finalized
\* inputs of the Preimage Stage in the same order, and each signature sits on
\* the input whose sighash it signs.
C5_SignedInputsAreFinalizedInputs ==
    Succeeded(sign_out) =>
        LET tx == sign_out[1].transaction[1]
            finalized == pre_signed.utxo_inputs
        IN /\ Len(tx.inputs) = Len(finalized)
           /\ \A i \in DOMAIN tx.inputs :
                /\ i \in DOMAIN finalized
                /\ tx.inputs[i].txid = finalized[i].txid
                /\ tx.inputs[i].vout = finalized[i].vout
                /\ \A k \in DOMAIN tx.inputs[i].witness_items :
                     tx.inputs[i].witness_items[k].sighash =
                        [txid |-> tx.inputs[i].txid, vout |-> tx.inputs[i].vout]

\* The value of the request input a transaction input spends.
SpentValue(req, txin) ==
    LET i == CHOOSE j \in DOMAIN req.inputs :
                 req.inputs[j].txid = txin.txid /\ req.inputs[j].vout = txin.vout
    IN req.inputs[i].value

RECURSIVE SumSpent(_, _)
SumSpent(req, txins) ==
    IF txins = <<>> THEN 0
    ELSE SpentValue(req, Head(txins)) + SumSpent(req, Tail(txins))

FeeBalances(out) ==
    Succeeded(out) =>
        LET tx == out[1].transaction[1]
        IN /\ out[1].fee = SumSpent(request, tx.inputs) - SumValues(tx.outputs)
           /\ out[1].fee >= 0

C7_BridgeIsTotalAndInjective ==
    bridge_in # <<>> =>
        /\ \A k \in 1..2 :
             /\ bridge_out[k].ok <=> bridge_in[k] = "OK"
             /\ bridge_in[k] # "OK" =>
                  ErrorInto(bridge_out[k].err) = ProtoError("utxo", bridge_in[k])
        /\ bridge_in[1] # bridge_in[2] => bridge_out[1] # bridge_out[2]

C7_Witness ==
    /\ bridge_in = <<"invalid_txid", "invalid_lock_time">>
    /\ ~bridge_out[1].ok /\ ~bridge_out[2].ok

\* C8: when compute_preimages succeeds, its finalized outputs are the one-to-one
\* translation of the request's outputs in request order, whatever inputs were
\* selected and whether or not change is enabled; the change output is not
\* among them.
C8_FinalizedOutputsAreRequestOutputs ==
    Succeeded(pre_out) =>
        /\ Len(pre_out[1].utxo_outputs) = Len(request.outputs)
        /\ \A i \in DOMAIN request.outputs :
             pre_out[1].utxo_outputs[i] =
                OutputBuilder_utxo_from_proto(request.outputs[i]).val

C8_Witness ==
    /\ Succeeded(pre_out)
    /\ request.change_output # <<>>
    /\ Len(request.outputs) = 2
    /\ request.outputs[1] # request.outputs[2]
    /\ request.input_selector = "SelectSubset"
    /\ pre_out[1].utxo_inputs[1].txid # request.inputs[1].txid

\* The stages among the calls, in the order they were made.
StagesOf(calls) ==
    SelectSeq(calls, LAMBDA c : c \in {"individual_keys", "preimage_hashes_impl",
                                       "signatures_from_proto", "compile_impl"})

IsPrefix(s, t) == Len(s) <= Len(t) /\ \A i \in DOMAIN s : s[i] = t[i]

\* C9: sign_all runs key collection, Preimage Stage, Signing Stage and Compile
\* Stage in that order; after an error of the Preimage Stage neither the signer
\* nor the compiler's compile is invoked, and after a signing failure the
\* compiler's compile is not invoked.
C9_StagesInOrder ==
    /\ IsPrefix(StagesOf(sign_calls),
                <<"individual_keys", "preimage_hashes_impl",
                  "signatures_from_proto", "compile_impl">>)
    /\ pc # "start" => StagesOf(sign_calls) # <<>>
    /\ "Compiler::compile" \in Range(sign_calls)
          => sign_calls[Len(sign_calls)] = "Compiler::compile"
    /\ ("preimage_hashes_impl" \in Range(sign_calls)
        /\ ~preimage_hashes_impl(request, oracle).res.ok)
       => /\ "signatures_from_proto" \notin Range(sign_calls)
          /\ "compile_impl" \notin Range(sign_calls)
          /\ "Compiler::compile" \notin Range(sign_calls)
          /\ sign_out # <<>>
          /\ sign_out[1].error =
                ErrorInto(preimage_hashes_impl(request, oracle).res.err)
    /\ ("signatures_from_proto" \in Range(sign_calls)
        /\ ~Signer_signatures_from_proto(
                pre_signed, request.private_key, individual_keys,
                request.dangerous_use_fixed_schnorr_rng).ok)
       => /\ "compile_impl" \notin Range(sign_calls)
          /\ "Compiler::compile" \notin Range(sign_calls)

C9_Witness ==
    /\ sign_calls = <<"individual_keys", "preimage_hashes_impl",
                      "Compiler::preimage_hashes">>
    /\ sign_out # <<>>
    /\ sign_out[1].error = ProtoError("utxo", "sighash_failed")

ViewMirrorsRequest(out) ==
    Succeeded(out) =>
        LET tx == out[1].transaction[1]
        IN /\ tx.version = request.version
           /\ tx.lock_time = request.lock_time
           /\ Len(tx.inputs) = Len(request.inputs)
           /\ \A i \in DOMAIN request.inputs :
                /\ tx.inputs[i].txid = request.inputs[i].txid
                /\ tx.inputs[i].vout = request.inputs[i].vout
                /\ tx.inputs[i].sequence = request.inputs[i].sequence
           /\ Len(tx.outputs) = Len(request.outputs)
           /\ \A i \in DOMAIN request.outputs :
                /\ tx.outputs[i].value = request.outputs[i].value
                /\ tx.outputs[i].script_pubkey =
                     OutputBuilder_utxo_from_proto(request.outputs[i]).val.script_pubkey

\* C10: when compile or sign_all succeeds, the transaction view has one input
\* per request input in request order (same txid, vout, sequence), one output
\* per request output in request order (same value and script), the request's
\* version and lock time, and no change output.
C10_ViewMirrorsRequest == ViewMirrorsRequest(sign_out) /\ ViewMirrorsRequest(comp_out)

C10_Witness ==
    /\ Succeeded(sign_out) /\ Succeeded(comp_out)
    /\ Len(request.inputs) = 2 /\ Len(request.outputs) = 2
    /\ request.outputs[1] # request.outputs[2]
    /\ request.change_output # <<>>

====
